---- MODULE Spec2Model ----
(***************************************************************************)
(* Resume to Job Description Matcher (src/Matcher.py).                     *)
(*                                                                         *)
(* Texts are sequences of one-character strings, so that lower-casing,     *)
(* the regular-expression substitutions, strip, split and the substring    *)
(* test `in` are computed character by character as Python computes them.  *)
(***************************************************************************)
EXTENDS Integers, Sequences, FiniteSets, TLC

VARIABLES
    pc,               \* position of the Streamlit script run
    uploaded_file,    \* st.file_uploader result: None or Some(pdf)
    job_desc,         \* st.text_area result
    user_skill_input, \* st.sidebar.text_input result
    skills_list,
    resume_text,
    score,            \* similarity returned by compare_resume_with_job
    matched_skills,
    missing_skills,
    found_sections,
    missing_sections,
    section_score,
    scores,           \* the component score map, None until built
    recs,             \* generate_recommendations' result, None until called
    messages,         \* st.info / st.warning / st.error calls of the run
    calls,            \* the collaborators and components the run has invoked
    arg,              \* input of a function applied on its own
    ret               \* its result

vars == <<pc, uploaded_file, job_desc, user_skill_input, skills_list,
          resume_text, score, matched_skills, missing_skills, found_sections,
          missing_sections, section_score, scores, recs, messages, calls,
          arg, ret>>

requestVars == <<pc, uploaded_file, job_desc, user_skill_input, skills_list,
                 resume_text, score, matched_skills, missing_skills,
                 found_sections, missing_sections, section_score, scores, recs,
                 messages, calls>>

----------------------------------------------------------------------------
(* Python values *)

None == <<>>
Some(x) == <<x>>
IsNone(v) == v = <<>>
Val(v) == v[1]

Range(s) == {s[i] : i \in 1..Len(s)}

SeqsUpTo(S, n) == UNION {[1..k -> S] : k \in 0..n}

(* Characters *)

LowerLetters ==
    <<"a","b","c","d","e","f","g","h","i","j","k","l","m",
      "n","o","p","q","r","s","t","u","v","w","x","y","z">>
UpperLetters ==
    <<"A","B","C","D","E","F","G","H","I","J","K","L","M",
      "N","O","P","Q","R","S","T","U","V","W","X","Y","Z">>
DigitChars == {"0","1","2","3","4","5","6","7","8","9"}

\* \w of Python's re on str: letters, digits and underscore
WordChars == Range(LowerLetters) \cup Range(UpperLetters) \cup DigitChars \cup {"_"}
\* \s, and what str.strip() removes
WhitespaceChars == {" ", "\n", "\t"}

IsWord(c) == c \in WordChars
IsSpace(c) == c \in WhitespaceChars

LowerTable ==
    [c \in Range(UpperLetters) |->
        LowerLetters[CHOOSE i \in 1..Len(UpperLetters) : UpperLetters[i] = c]]

LowerChar(c) == IF c \in DOMAIN LowerTable THEN LowerTable[c] ELSE c

\* str.lower()
str_lower(s) == [i \in 1..Len(s) |-> LowerChar(s[i])]

\* str.strip()
str_strip(s) ==
    LET idx == {i \in 1..Len(s) : ~IsSpace(s[i])}
        lo  == CHOOSE i \in idx : \A j \in idx : i <= j
        hi  == CHOOSE i \in idx : \A j \in idx : j <= i
    IN  IF idx = {} THEN <<>> ELSE SubSeq(s, lo, hi)

\* re.sub(r'\W+', ' ', s): every maximal run of non-word characters becomes
\* one space
re_sub_nonword(s) ==
    LET F[i \in 0..Len(s)] ==
            IF i = 0 THEN <<>>
            ELSE IF IsWord(s[i]) THEN Append(F[i-1], s[i])
            ELSE IF i = 1 \/ IsWord(s[i-1]) THEN Append(F[i-1], " ")
            ELSE F[i-1]
    IN  F[Len(s)]

\* re.sub(r'\s+', ' ', s): every maximal run of whitespace becomes one space
re_sub_space(s) ==
    LET F[i \in 0..Len(s)] ==
            IF i = 0 THEN <<>>
            ELSE IF ~IsSpace(s[i]) THEN Append(F[i-1], s[i])
            ELSE IF i = 1 \/ ~IsSpace(s[i-1]) THEN Append(F[i-1], " ")
            ELSE F[i-1]
    IN  F[Len(s)]

\* s.split(","): the pieces between commas, empty pieces kept
str_split_comma(s) ==
    LET F[i \in 0..Len(s)] ==
            IF i = 0 THEN << <<>> >>
            ELSE LET prev == F[i-1]
                 IN  IF s[i] = "," THEN Append(prev, <<>>)
                     ELSE [prev EXCEPT ![Len(prev)] = Append(@, s[i])]
    IN  F[Len(s)]

\* sub in s
Contains(sub, s) ==
    \/ sub = <<>>
    \/ \E i \in 1..(Len(s) - Len(sub) + 1) :
          s[i] = sub[1] /\ SubSeq(s, i, i + Len(sub) - 1) = sub

\* "".join(parts)
Concat(parts) ==
    LET F[i \in 0..Len(parts)] == IF i = 0 THEN <<>> ELSE F[i-1] \o parts[i]
    IN  F[Len(parts)]

\* sep.join(parts)
Join(sep, parts) ==
    LET F[i \in 0..Len(parts)] ==
            IF i = 0 THEN <<>>
            ELSE IF i = 1 THEN parts[1]
            ELSE F[i-1] \o sep \o parts[i]
    IN  F[Len(parts)]

\* round(num / den) for den > 0: Python 3 rounds halves to the even neighbour
PyRound(num, den) ==
    LET q == num \div den
        r == num - q * den
    IN  IF 2 * r < den THEN q
        ELSE IF 2 * r > den THEN q + 1
        ELSE IF q % 2 = 0 THEN q ELSE q + 1

\* [x for x in seq if Test(x)]
Filter(seq, Test(_)) == SelectSeq(seq, Test)

----------------------------------------------------------------------------
(* The functions of src/Matcher.py *)

\* A PDF upload: whether reading and opening it succeeds, and the text
\* page.get_text() yields for each page.
Pdf(opens, pages) == [opens |-> opens, pages |-> pages]

\* extract_text_from_pdf: the text, and whether the except branch ran
\* (st.error("Error reading PDF: ...") and return "")
extract_text_from_pdf(file) ==
    IF file.opens
    THEN [text |-> str_strip(re_sub_space(Concat(file.pages))), caught |-> FALSE]
    ELSE [text |-> <<>>, caught |-> TRUE]

\* variant: strips before the substitution instead of after it
preprocess_strip_first(text) == re_sub_nonword(str_strip(str_lower(text)))

preprocess_text(text) == str_strip(re_sub_nonword(str_lower(text)))

\* variant: missing does not exclude what the resume holds
extract_skills_missing_unfiltered(resume, job, skills) ==
    LET r == str_lower(resume)
        j == str_lower(job)
    IN  [matched |-> SelectSeq(skills, LAMBDA s : Contains(s, r)),
         missing |-> SelectSeq(skills, LAMBDA s : Contains(s, j))]

\* variant: normalizes each skill like the texts before looking for it
extract_skills_normalizing(resume, job, skills) ==
    LET r == str_lower(resume)
        j == str_lower(job)
    IN  [matched |-> SelectSeq(skills, LAMBDA s : Contains(preprocess_text(s), r)),
         missing |-> SelectSeq(skills, LAMBDA s : /\ Contains(preprocess_text(s), j)
                                                  /\ ~Contains(preprocess_text(s), r))]

extract_skills(resume, job, skills) ==
    LET r == str_lower(resume)
        j == str_lower(job)
    IN  [matched |-> SelectSeq(skills, LAMBDA s : Contains(s, r)),
         missing |-> SelectSeq(skills, LAMBDA s : Contains(s, j) /\ ~Contains(s, r))]

\* the similarity is a float; the model holds it in units of 1/SimScale
SimScale == 1000000

\* variant: only the resume is tested for emptiness
CannotScoreResumeOnly(resume, job) == resume = <<>>

\* `if not resume_text or not job_desc` of compare_resume_with_job
CannotScore(resume, job) == resume = <<>> \/ job = <<>>

\* compare_resume_with_job; cos_sim is what util.cos_sim(...).item() returns
\* when the model is asked. encoded tells whether model.encode was called.
compare_resume_with_job(resume, job, skills, cos_sim) ==
    LET r == preprocess_text(resume)
        j == preprocess_text(job)
        m == extract_skills(r, j, skills)
    IN  IF CannotScore(r, j)
        THEN [score |-> None, matched |-> <<>>, missing |-> <<>>, encoded |-> FALSE]
        ELSE [score |-> Some(cos_sim), matched |-> m.matched,
              missing |-> m.missing, encoded |-> TRUE]

\* the sections dict of check_sections, in insertion order
sections ==
    << [name |-> <<"E","d","u","c","a","t","i","o","n">>,
        keywords |-> <<<<"e","d","u","c","a","t","i","o","n">>, <<"a","c","a","d","e","m","i","c"," ","b","a","c","k","g","r","o","u","n","d">>, <<"q","u","a","l","i","f","i","c","a","t","i","o","n","s">>>>],
       [name |-> <<"E","x","p","e","r","i","e","n","c","e">>,
        keywords |-> <<<<"e","x","p","e","r","i","e","n","c","e">>, <<"w","o","r","k"," ","h","i","s","t","o","r","y">>, <<"e","m","p","l","o","y","m","e","n","t">>>>],
       [name |-> <<"P","r","o","j","e","c","t","s">>,
        keywords |-> <<<<"p","r","o","j","e","c","t","s">>, <<"p","r","o","j","e","c","t"," ","w","o","r","k">>, <<"p","o","r","t","f","o","l","i","o">>>>],
       [name |-> <<"S","k","i","l","l","s">>,
        keywords |-> <<<<"s","k","i","l","l","s">>, <<"t","e","c","h","n","i","c","a","l"," ","s","k","i","l","l","s">>, <<"c","o","r","e"," ","c","o","m","p","e","t","e","n","c","i","e","s">>>>],
       [name |-> <<"S","u","m","m","a","r","y">>,
        keywords |-> <<<<"s","u","m","m","a","r","y">>, <<"p","r","o","f","i","l","e">>, <<"o","b","j","e","c","t","i","v","e">>>>],
       [name |-> <<"C","e","r","t","i","f","i","c","a","t","i","o","n","s">>,
        keywords |-> <<<<"c","e","r","t","i","f","i","c","a","t","i","o","n","s">>, <<"l","i","c","e","n","s","e","s">>>>] >>

SectionNames == [i \in 1..Len(sections) |-> sections[i].name]

\* variant: all(...) in place of any(...)
SectionPresentAll(keywords, text) ==
    \A k \in 1..Len(keywords) : Contains(keywords[k], text)

\* any(keyword in text for keyword in keywords)
SectionPresent(keywords, text) ==
    \E k \in 1..Len(keywords) : Contains(keywords[k], text)

\* round(len(found) / len(sections) * 100)
SectionScore(found) == PyRound(Len(found) * 100, Len(sections))

check_sections(text) ==
    LET t == str_lower(text)
        found   == SelectSeq(sections, LAMBDA s : SectionPresent(s.keywords, t))
        missing == SelectSeq(sections, LAMBDA s : ~SectionPresent(s.keywords, t))
    IN  [found   |-> [i \in 1..Len(found) |-> found[i].name],
         missing |-> [i \in 1..Len(missing) |-> missing[i].name],
         score   |-> SectionScore(found)]

\* one recommendation: its text and, for the two list rules, the joined list
Rec(msg, items) == [msg |-> msg, items |-> items]
CommaSpace == <<",", " ">>

WellPrepared == Rec("Your resume looks well-prepared!", <<>>)

TailoringThreshold == 60
ContentThreshold == 60
StyleThreshold == 70
ATSThreshold == 80

RuleTailoring(sc) == sc.Tailoring < TailoringThreshold
RuleContent(sc) == sc.Content < ContentThreshold
\* variant: <= in place of <
RuleStyleInclusive(sc) == sc.Style <= StyleThreshold
RuleStyle(sc) == sc.Style < StyleThreshold
RuleATS(sc) == sc.ATS < ATSThreshold

generate_recommendations(sc, missingSkills, missingSections) ==
    LET r1 == IF RuleTailoring(sc)
              THEN <<Rec("Improve keyword matching with the job description.", <<>>)>>
              ELSE <<>>
        r2 == IF RuleContent(sc)
              THEN <<Rec("Better align your resume's content with job responsibilities.", <<>>)>>
              ELSE <<>>
        r3 == IF missingSkills # <<>>
              THEN <<Rec("Add these missing skills", Join(CommaSpace, missingSkills))>>
              ELSE <<>>
        r4 == IF RuleStyle(sc)
              THEN <<Rec("Use bullet points consistently and avoid large text blocks.", <<>>)>>
              ELSE <<>>
        r5 == IF RuleATS(sc)
              THEN <<Rec("Avoid tables/graphics. Use standard fonts and section titles.", <<>>)>>
              ELSE <<>>
        r6 == IF missingSections # <<>>
              THEN <<Rec("Add missing sections", Join(CommaSpace, missingSections))>>
              ELSE <<>>
        fired == r1 \o r2 \o r3 \o r4 \o r5 \o r6
    IN  IF fired = <<>> THEN <<WellPrepared>> ELSE fired

\* variant: the `if s.strip()` filter is left out
ParseSkillsNoFilter(input) ==
    LET pieces == str_split_comma(input)
    IN  [i \in 1..Len(pieces) |-> str_lower(str_strip(pieces[i]))]

\* skills_list = [s.strip().lower() for s in user_skill_input.split(",") if s.strip()]
ParseSkills(input) ==
    LET kept == SelectSeq(str_split_comma(input), LAMBDA s : str_strip(s) # <<>>)
    IN  [i \in 1..Len(kept) |-> str_lower(str_strip(kept[i]))]

\* overall_score = round(score * 100)
OverallScore(sim) == PyRound(sim * 100, SimScale)

\* the Content entry of scores
ContentScore(matched, skills) ==
    IF skills # <<>> THEN PyRound(Len(matched) * 100, Len(skills)) ELSE 0

StylePlaceholder == 86
ATSPlaceholder == 100

\* the scores dict
BuildScores(sim, matched, skills, sectionScore) ==
    [Tailoring |-> OverallScore(sim),
     Content   |-> ContentScore(matched, skills),
     Style     |-> StylePlaceholder,
     ATS       |-> ATSPlaceholder,
     Sections  |-> sectionScore]

----------------------------------------------------------------------------
(* One run of the Streamlit script (lines 168-231). Streamlit runs the    *)
(* script top to bottom with fresh locals each time a widget changes, so  *)
(* runs share nothing; Init enumerates the widget values of a run.        *)

MaxPages == 1
MaxEntries == 2

\* page.get_text() results
PagePool ==
    { <<"E","d","u","c","a","t","i","o","n","\n","S","k","i","l","l","s",":"," ","P","y","t","h","o","n",","," ","C","+","+","\n">>,
      <<"W","o","r","k","-","H","i","s","t","o","r","y",":"," ","S","Q","L"," ","d","e","v","\n">>,
      <<" ","\n">>,
      <<"+","+","+">> }

\* what the user pastes as job description
JobPool ==
    { <<>>,
      <<"+"," ","+">>,
      <<"N","e","e","d"," ","P","y","t","h","o","n",","," ","S","Q","L",","," ","C","+","+">> }

\* what the user types between the commas of the skills box
EntryPool == { <<"p","y","t","h","o","n">>, <<" ","S","Q","L"," ">>, <<"c","+","+">>, <<" ">> }

UploadChoices ==
    {None, Some(Pdf(FALSE, <<>>))}
        \cup {Some(Pdf(TRUE, pages)) : pages \in SeqsUpTo(PagePool, MaxPages)}

SkillInputs == {Join(<<",">>, es) : es \in SeqsUpTo(EntryPool, MaxEntries)}

\* util.cos_sim(...).item(), in units of 1/SimScale: the cosine of two
\* float32 embeddings, in [-1, 1] up to rounding noise
SimValues == {-SimScale, -4000, 594000, 600000, SimScale, SimScale + 1}

FreshLocals ==
    /\ skills_list = <<>>
    /\ resume_text = <<>>
    /\ score = None
    /\ matched_skills = <<>>
    /\ missing_skills = <<>>
    /\ found_sections = <<>>
    /\ missing_sections = <<>>
    /\ section_score = None
    /\ scores = None
    /\ recs = None
    /\ messages = {}
    /\ calls = {}

NoFunction == arg = None /\ ret = None

Init ==
    /\ pc = "start"
    /\ uploaded_file \in UploadChoices
    /\ job_desc \in JobPool
    /\ user_skill_input \in SkillInputs
    /\ FreshLocals
    /\ NoFunction

\* `if uploaded_file and job_desc`
InputsGiven == uploaded_file # None /\ job_desc # <<>>

\* `if not skills_list`
NoSkills(skills) == skills = <<>>

\* variant: the emptiness test of the extracted text is left out
ExtractionFailedNever(text) == FALSE

\* `if not resume_text`
ExtractionFailed(text) == text = <<>>

\* lines 173-183 and 230-231: the widgets, then the two gates
Start ==
    /\ pc = "start"
    /\ skills_list' = ParseSkills(user_skill_input)
    /\ IF ~InputsGiven
       THEN /\ messages' = messages \cup {"info: upload a resume and paste a job description"}
            /\ pc' = "done"
       ELSE IF NoSkills(skills_list')
       THEN /\ messages' = messages \cup {"warning: enter at least one skill"}
            /\ pc' = "done"
       ELSE /\ messages' = messages
            /\ pc' = "extract"
    /\ UNCHANGED <<uploaded_file, job_desc, user_skill_input, resume_text, score,
                   matched_skills, missing_skills, found_sections, missing_sections,
                   section_score, scores, recs, calls, arg, ret>>

\* lines 185-187, with extract_text_from_pdf (lines 21-32)
Extract ==
    /\ pc = "extract"
    /\ LET got == extract_text_from_pdf(Val(uploaded_file))
           m1  == IF got.caught THEN {"error: reading PDF"} ELSE {}
       IN  /\ resume_text' = got.text
           /\ calls' = calls \cup {"extract_text_from_pdf"}
           /\ IF ExtractionFailed(got.text)
              THEN /\ messages' = messages \cup m1 \cup {"error: failed to extract text"}
                   /\ pc' = "done"
              ELSE /\ messages' = messages \cup m1
                   /\ pc' = "compare"
    /\ UNCHANGED <<uploaded_file, job_desc, user_skill_input, skills_list, score,
                   matched_skills, missing_skills, found_sections, missing_sections,
                   section_score, scores, recs, arg, ret>>

\* line 189, with compare_resume_with_job (lines 49-61). The model's answer
\* is any similarity; model.encode may also raise, which nothing catches.
Compare ==
    /\ pc = "compare"
    /\ \/ /\ compare_resume_with_job(resume_text, job_desc, skills_list, 0).encoded = FALSE
          /\ score' = None
          /\ matched_skills' = <<>>
          /\ missing_skills' = <<>>
          /\ calls' = calls \cup {"compare_resume_with_job"}
          /\ pc' = "sections"
       \/ \E cos_sim \in SimValues :
            LET got == compare_resume_with_job(resume_text, job_desc, skills_list, cos_sim)
            IN  /\ got.encoded
                /\ score' = got.score
                /\ matched_skills' = got.matched
                /\ missing_skills' = got.missing
                /\ calls' = calls \cup {"compare_resume_with_job", "model.encode", "extract_skills"}
                /\ pc' = "sections"
       \/ /\ compare_resume_with_job(resume_text, job_desc, skills_list, 0).encoded
          /\ calls' = calls \cup {"compare_resume_with_job", "model.encode"}
          /\ pc' = "crashed"
          /\ UNCHANGED <<score, matched_skills, missing_skills>>
    /\ UNCHANGED <<uploaded_file, job_desc, user_skill_input, skills_list, resume_text,
                   found_sections, missing_sections, section_score, scores, recs,
                   messages, arg, ret>>

\* line 190
CheckSections ==
    /\ pc = "sections"
    /\ LET got == check_sections(resume_text)
       IN  /\ found_sections' = got.found
           /\ missing_sections' = got.missing
           /\ section_score' = Some(got.score)
    /\ calls' = calls \cup {"check_sections"}
    /\ pc' = "scores"
    /\ UNCHANGED <<uploaded_file, job_desc, user_skill_input, skills_list, resume_text,
                   score, matched_skills, missing_skills, scores, recs, messages,
                   arg, ret>>

\* lines 192-217 and 228-229
Scores ==
    /\ pc = "scores"
    /\ IF ~IsNone(score)
       THEN /\ scores' = Some(BuildScores(Val(score), matched_skills, skills_list,
                                          Val(section_score)))
            /\ calls' = calls \cup {"scores"}
            /\ messages' = messages
            /\ pc' = "report"
       ELSE /\ messages' = messages \cup {"error: could not compute similarity score"}
            /\ pc' = "done"
            /\ UNCHANGED <<scores, calls>>
    /\ UNCHANGED <<uploaded_file, job_desc, user_skill_input, skills_list, resume_text,
                   score, matched_skills, missing_skills, found_sections,
                   missing_sections, section_score, recs, arg, ret>>

\* lines 219-227: st.button is true in the run its click triggers
Report ==
    /\ pc = "report"
    /\ \E clicked \in BOOLEAN :
         IF clicked
         THEN /\ recs' = Some(generate_recommendations(Val(scores), missing_skills,
                                                       missing_sections))
              /\ calls' = calls \cup {"generate_recommendations"}
         ELSE UNCHANGED <<recs, calls>>
    /\ pc' = "done"
    /\ UNCHANGED <<uploaded_file, job_desc, user_skill_input, skills_list, resume_text,
                   score, matched_skills, missing_skills, found_sections,
                   missing_sections, section_score, scores, messages, arg, ret>>

Next == Start \/ Extract \/ Compare \/ CheckSections \/ Scores \/ Report

Spec == Init /\ [][Next]_vars

----------------------------------------------------------------------------
(* The functions applied on their own, to inputs drawn from bounded sets. *)
(* No script run is in progress: pc = "function" and the run's variables  *)
(* keep their fresh values.                                               *)

NoRequest ==
    /\ pc = "function"
    /\ uploaded_file = None
    /\ job_desc = <<>>
    /\ user_skill_input = <<>>
    /\ FreshLocals

(* preprocess_text, on every text over NormAlphabet of up to MaxNormLen   *)
(* characters, applied once and then to its own result                    *)

MaxNormLen == 4
NormAlphabet == {"a", "B", "_", " ", "+", "\n"}

InitNorm ==
    /\ NoRequest
    /\ arg \in SeqsUpTo(NormAlphabet, MaxNormLen)
    /\ ret = None

ApplyPreprocess ==
    /\ pc = "function"
    /\ ret = None
    /\ ret' = <<preprocess_text(arg)>>
    /\ UNCHANGED <<requestVars, arg>>

ApplyPreprocessAgain ==
    /\ pc = "function"
    /\ Len(ret) = 1
    /\ ret' = <<ret[1], preprocess_text(ret[1])>>
    /\ UNCHANGED <<requestVars, arg>>

NextNorm == ApplyPreprocess \/ ApplyPreprocessAgain

SpecNorm == InitNorm /\ [][NextNorm]_vars

(* extract_skills, on normalized texts as compare_resume_with_job passes  *)
(* them and vocabularies as the skills box yields them                    *)

MaxSkillTextLen == 3
MaxVocab == 2
SkillTextAlphabet == {"a", "B", "+"}
VocabPool == { <<"a">>, <<"b">>, <<"a","b">>, <<"a"," ","b">>, <<"a","+">> }

NormalizedSkillTexts ==
    {preprocess_text(x) : x \in SeqsUpTo(SkillTextAlphabet, MaxSkillTextLen)}

\* Scenario A of the specification
ScenarioA ==
    [resume |-> preprocess_text(<<"p","y","t","h","o","n"," ","d","e","v","e","l","o","p","e","r"," ","w","i","t","h"," ","a","w","s"," ","a","n","d"," ","d","o","c","k","e","r"," ","e","x","p","e","r","i","e","n","c","e">>),
     job    |-> preprocess_text(<<"l","o","o","k","i","n","g"," ","f","o","r"," ","p","y","t","h","o","n",","," ","s","q","l",","," ","d","o","c","k","e","r"," ","e","x","p","e","r","t">>),
     skills |-> <<<<"p","y","t","h","o","n">>, <<"s","q","l">>, <<"d","o","c","k","e","r">>, <<"a","w","s">>>>]

InitSkills ==
    /\ NoRequest
    /\ arg \in [resume : NormalizedSkillTexts, job : NormalizedSkillTexts,
                skills : SeqsUpTo(VocabPool, MaxVocab)] \cup {ScenarioA}
    /\ ret = None

ApplyExtractSkills ==
    /\ pc = "function"
    /\ ret = None
    /\ ret' = Some(extract_skills(arg.resume, arg.job, arg.skills))
    /\ UNCHANGED <<requestVars, arg>>

NextSkills == ApplyExtractSkills

SpecSkills == InitSkills /\ [][NextSkills]_vars

(* check_sections, on texts put together from up to MaxFrags fragments    *)

MaxFrags == 2

\* Scenario C of the specification
ScenarioC == <<"E","d","u","c","a","t","i","o","n",":"," ","B","S","c"," ","E","x","p","e","r","i","e","n","c","e",":"," ","d","e","v"," ","S","k","i","l","l","s",":"," ","p","y">>

SectionFrags ==
    { ScenarioC,
      <<" ","P","r","o","j","e","c","t","s"," ","S","u","m","m","a","r","y"," ","C","e","r","t","i","f","i","c","a","t","i","o","n","s">>,
      <<"W","o","r","k"," ","H","i","s","t","o","r","y">>,
      <<"p","r","o","j","e","c","t">>,
      <<" ","w","o","r","k">>,
      <<"l","i","c","e","n","s","e","s">>,
      <<"P","R","O","F","I","L","E">>,
      <<"x","y","z">> }

InitSections ==
    /\ NoRequest
    /\ arg \in {Concat(fs) : fs \in SeqsUpTo(SectionFrags, MaxFrags)}
    /\ ret = None

ApplyCheckSections ==
    /\ pc = "function"
    /\ ret = None
    /\ ret' = Some(check_sections(arg))
    /\ UNCHANGED <<requestVars, arg>>

NextSections == ApplyCheckSections

SpecSections == InitSections /\ [][NextSections]_vars

(* generate_recommendations, on scores within Margin of each threshold    *)
(* (and the two placeholders), and short lists of missing skills and      *)
(* sections                                                               *)

Margin == 1

Around(t) == (t - Margin)..(t + Margin)

MissingSkillsPool == { <<>>, <<<<"s","q","l">>>>, <<<<"s","q","l">>, <<"a","w","s">>>> }
MissingSectionsPool ==
    { <<>>, <<SectionNames[3]>>, <<SectionNames[3], SectionNames[5]>> }

InitRec ==
    /\ NoRequest
    /\ \E t \in Around(TailoringThreshold), c \in Around(ContentThreshold),
          st \in Around(StyleThreshold) \cup {StylePlaceholder},
          a \in Around(ATSThreshold) \cup {ATSPlaceholder},
          ms \in MissingSkillsPool, msec \in MissingSectionsPool :
            arg = [scores |-> [Tailoring |-> t, Content |-> c, Style |-> st, ATS |-> a,
                               Sections |-> PyRound((Len(sections) - Len(msec)) * 100,
                                                    Len(sections))],
                   missing_skills |-> ms,
                   missing_sections |-> msec]
    /\ ret = None

ApplyRecommend ==
    /\ pc = "function"
    /\ ret = None
    /\ ret' = Some(generate_recommendations(arg.scores, arg.missing_skills,
                                            arg.missing_sections))
    /\ UNCHANGED <<requestVars, arg>>

NextRec == ApplyRecommend

SpecRec == InitRec /\ [][NextRec]_vars

----------------------------------------------------------------------------
(* Properties *)

MetricNames == {"Tailoring", "Content", "Style", "ATS", "Sections"}

Metric(sc, m) ==
    CASE m = "Tailoring" -> sc.Tailoring
      [] m = "Content"   -> sc.Content
      [] m = "Style"     -> sc.Style
      [] m = "ATS"       -> sc.ATS
      [] m = "Sections"  -> sc.Sections

\* C1: every metric of a score map the run builds is an integer in
\* [0, 100], whatever similarity in [-1, 1] (or just above 1) the model
\* returned and whatever the vocabulary and the matched skills are.
C1_ScoresWithinPercent ==
    ~IsNone(scores) =>
        \A m \in MetricNames : Metric(Val(scores), m) \in 0..100

ScorerReturned == "compare_resume_with_job" \in calls

EmptyAfterNormalization ==
    \/ preprocess_text(resume_text) = <<>>
    \/ preprocess_text(job_desc) = <<>>

\* C2: when the resume or the job description is empty after
\* normalization, the scorer returns None without the model ever being
\* asked, no score map is built, no recommendations are generated, and the
\* run ends with the "could not compute" error.
C2_EmptyTextEndsInError ==
    EmptyAfterNormalization =>
        /\ "model.encode" \notin calls
        /\ IsNone(scores)
        /\ IsNone(recs)
        /\ ScorerReturned =>
              /\ IsNone(score)
              /\ matched_skills = <<>> /\ missing_skills = <<>>
              /\ pc \in {"sections", "scores", "done"}
              /\ pc = "done" =>
                    "error: could not compute similarity score" \in messages

C2_Witness ==
    /\ pc = "done"
    /\ ScorerReturned
    /\ resume_text # <<>>
    /\ preprocess_text(resume_text) = <<>>
    /\ preprocess_text(job_desc) # <<>>
    /\ messages = {"error: could not compute similarity score"}

\* no entry of the comma-separated input is non-blank after trimming
NoNonBlankEntry(input) ==
    LET pieces == str_split_comma(input)
    IN  \A i \in 1..Len(pieces) : \A k \in 1..Len(pieces[i]) : IsSpace(pieces[i][k])

\* C3: when the skill vocabulary is empty, the run performs neither text
\* extraction, nor a call of the model, nor section detection, nor
\* aggregation; a run that was given a resume and a job description stops
\* at the warning.
C3_EmptyVocabularyStopsBeforeScoring ==
    NoNonBlankEntry(user_skill_input) =>
        /\ calls = {}
        /\ IsNone(score) /\ IsNone(section_score) /\ IsNone(scores) /\ IsNone(recs)
        /\ pc \in {"start", "done"}
        /\ (pc = "done" /\ InputsGiven) =>
              messages = {"warning: enter at least one skill"}

C3_Witness ==
    /\ pc = "done"
    /\ InputsGiven
    /\ Val(uploaded_file).opens
    /\ user_skill_input # <<>>
    /\ NoNonBlankEntry(user_skill_input)
    /\ messages = {"warning: enter at least one skill"}
    /\ calls = {}

ExtractorReturned == "extract_text_from_pdf" \in calls

\* the upload cannot be read, or its pages hold nothing but whitespace
NoTextInUpload ==
    \/ ~Val(uploaded_file).opens
    \/ \A i \in 1..Len(Val(uploaded_file).pages) :
          \A k \in 1..Len(Val(uploaded_file).pages[i]) :
              IsSpace(Val(uploaded_file).pages[i][k])

\* C4: when text extraction fails, the run ends with an error and nothing
\* else is attempted: no scorer or model call, no skill matching, no
\* section detection, no scores, no recommendations; a read error ends in
\* the extractor's own message, never in a crash of the run.
C4_ExtractionFailureAborts ==
    (ExtractorReturned /\ NoTextInUpload) =>
        /\ pc = "done"
        /\ calls = {"extract_text_from_pdf"}
        /\ resume_text = <<>>
        /\ "error: failed to extract text" \in messages
        /\ ~Val(uploaded_file).opens => "error: reading PDF" \in messages
        /\ IsNone(score) /\ IsNone(section_score) /\ IsNone(scores) /\ IsNone(recs)
        /\ matched_skills = <<>> /\ missing_skills = <<>>
        /\ found_sections = <<>> /\ missing_sections = <<>>

C4_Witness ==
    /\ pc = "done"
    /\ ExtractorReturned
    /\ ~Val(uploaded_file).opens
    /\ messages = {"error: reading PDF", "error: failed to extract text"}

\* a is b with some entries left out
IsSubsequence(a, b) ==
    \E f \in [1..Len(a) -> 1..Len(b)] :
        /\ \A i \in 1..Len(a) : a[i] = b[f[i]]
        /\ \A i \in 1..Len(a) : \A k \in 1..Len(a) : i < k => f[i] < f[k]

\* C5: every matched skill is a substring of the resume; every missing
\* skill is a substring of the job description and not of the resume; no
\* skill is in both lists; both lists keep the vocabulary's order; a skill
\* in neither text is in neither list. Scenario A gives python, docker,
\* aws matched and sql missing.
C5_SkillListsSound ==
    ~IsNone(ret) =>
        LET m == Val(ret).matched
            x == Val(ret).missing
        IN  /\ \A i \in 1..Len(m) : Contains(m[i], arg.resume)
            /\ \A i \in 1..Len(x) :
                  Contains(x[i], arg.job) /\ ~Contains(x[i], arg.resume)
            /\ Range(m) \cap Range(x) = {}
            /\ IsSubsequence(m, arg.skills)
            /\ IsSubsequence(x, arg.skills)
            /\ \A i \in 1..Len(arg.skills) :
                  (~Contains(arg.skills[i], arg.resume) /\ ~Contains(arg.skills[i], arg.job))
                      => arg.skills[i] \notin Range(m) \cup Range(x)
            /\ arg = ScenarioA =>
                  /\ m = <<arg.skills[1], arg.skills[3], arg.skills[4]>>
                  /\ x = <<arg.skills[2]>>

C5_Witness ==
    /\ ~IsNone(ret)
    /\ arg # ScenarioA
    /\ Len(Val(ret).matched) = 1
    /\ Len(Val(ret).missing) = 1
    /\ Val(ret).matched[1] = arg.skills[2]
    /\ Val(ret).missing[1] = arg.skills[1]

TaxonomyIndex(name) == CHOOSE i \in 1..Len(SectionNames) : SectionNames[i] = name

InTaxonomyOrder(list) ==
    /\ \A i \in 1..Len(list) : list[i] \in Range(SectionNames)
    /\ \A i \in 1..Len(list) : \A k \in 1..Len(list) :
          i < k => TaxonomyIndex(list[i]) < TaxonomyIndex(list[k])

\* round(n / 6 * 100) for n = 0..6
SixthsPercent == <<0, 17, 33, 50, 67, 83, 100>>

\* C6: found and missing partition the six sections: each section is in
\* exactly one of the lists, once, and both lists are in taxonomy order;
\* the score is round(|found| / 6 * 100). Scenario C gives Education,
\* Experience, Skills found and a score of 50.
C6_SectionsPartition ==
    ~IsNone(ret) =>
        LET f == Val(ret).found
            x == Val(ret).missing
        IN  /\ Len(SectionNames) = 6
            /\ InTaxonomyOrder(f)
            /\ InTaxonomyOrder(x)
            /\ Range(f) \cap Range(x) = {}
            /\ Range(f) \cup Range(x) = Range(SectionNames)
            /\ Len(f) + Len(x) = 6
            /\ Val(ret).score = SixthsPercent[Len(f) + 1]
            /\ arg = ScenarioC =>
                  /\ f = <<SectionNames[1], SectionNames[2], SectionNames[4]>>
                  /\ x = <<SectionNames[3], SectionNames[5], SectionNames[6]>>
                  /\ Val(ret).score = 50

C6_Witness ==
    /\ ~IsNone(ret)
    /\ arg # ScenarioC
    /\ Len(Val(ret).found) = 4
    /\ Val(ret).found[2] = SectionNames[2]
    /\ Val(ret).score = 67

\* none of the six rules applies to the input
NoRuleApplies ==
    /\ arg.scores.Tailoring >= 60
    /\ arg.scores.Content >= 60
    /\ arg.scores.Style >= 70
    /\ arg.scores.ATS >= 80
    /\ arg.missing_skills = <<>>
    /\ arg.missing_sections = <<>>

\* C7: generate_recommendations never returns an empty list; the
\* "well-prepared" message is in it if and only if none of the six rules
\* fired, and then it is the only message.
C7_WellPreparedIffNoRule ==
    ~IsNone(ret) =>
        /\ Val(ret) # <<>>
        /\ (WellPrepared \in Range(Val(ret))) <=> NoRuleApplies
        /\ NoRuleApplies => Val(ret) = <<WellPrepared>>

C7_Witness ==
    /\ ~IsNone(ret)
    /\ arg.scores.Style = 70
    /\ arg.scores.ATS = 80
    /\ Val(ret) = <<WellPrepared>>

SectionsDetected == "check_sections" \in calls

\* C8: the run detects sections in the normalized resume text: a section
\* is found if and only if one of its keywords is a substring of
\* preprocess_text(resume_text).
C8_SectionsOnNormalizedText ==
    SectionsDetected =>
        \A i \in 1..Len(sections) :
            (sections[i].name \in Range(found_sections))
                <=> SectionPresent(sections[i].keywords, preprocess_text(resume_text))

IsLowerSpaced(t) ==
    /\ \A i \in 1..Len(t) : t[i] \in (WordChars \ Range(UpperLetters)) \cup {" "}
    /\ \A i \in 1..(Len(t) - 1) : ~(t[i] = " " /\ t[i + 1] = " ")
    /\ t # <<>> => (t[1] # " " /\ t[Len(t)] # " ")

\* C9: preprocess_text is idempotent; its result is lower-case, holds word
\* characters and single interior spaces only, neither starts nor ends
\* with a space, and is empty for the empty text.
C9_PreprocessIdempotent ==
    /\ Len(ret) >= 1 =>
          /\ IsLowerSpaced(ret[1])
          /\ arg = <<>> => ret[1] = <<>>
    /\ Len(ret) = 2 => ret[2] = ret[1]

C9_Witness ==
    /\ Len(ret) = 2
    /\ Len(arg) = 4
    /\ Len(ret[1]) = 3
    /\ ret[1][2] = " "
    /\ ret[1] # arg

\* s holds a character that is neither a word character nor a space
HasOtherCharacter(s) == \E k \in 1..Len(s) : ~IsWord(s[k]) /\ s[k] # " "

\* C10: a vocabulary skill holding a non-word character other than a space
\* is reported neither as matched nor as missing, whatever the resume and
\* the job description hold, and still counts in the denominator of the
\* Content metric.
C10_PunctuatedSkillNeverFound ==
    \A i \in 1..Len(skills_list) :
        HasOtherCharacter(skills_list[i]) =>
            /\ skills_list[i] \notin Range(matched_skills) \cup Range(missing_skills)
            /\ ~IsNone(scores) =>
                  LET c == Val(scores).Content
                      n == Len(skills_list)
                      m == Len(matched_skills)
                  IN  /\ m < n
                      /\ 2 * (c * n - 100 * m) \in (0 - n)..n
                      /\ c < 100

C10_Witness ==
    /\ ~IsNone(scores)
    /\ Len(skills_list) = 2
    /\ HasOtherCharacter(skills_list[1])
    /\ Contains(skills_list[1], str_lower(resume_text))
    /\ Contains(skills_list[1], str_lower(job_desc))
    /\ matched_skills = <<skills_list[2]>>
    /\ Val(scores).Content = 50

====
